---- MODULE Spec2Model ----
(***************************************************************************)
(* MPL back end: block former (Routine::add_inst, Mk_blk), liveness pass   *)
(* (Liveness / opt_dead), the object container (Obj_Index), the mutators   *)
(* of Object, Routine and Array, the x86 emitter's entry point x86(), and  *)
(* the emitter of one routine (Gen_routine, Gen_blk, Gen_inst, reg_d).     *)
(*                                                                         *)
(* The containers of the program are built on the DS library (util/data.h),*)
(* which is used here through its interface as the code relies on it:      *)
(* DS_first/DS_last/DS_next/DS_previous/DS_find return NULL when there is  *)
(* no such node, DS_insert into a tree without duplicates returns NULL for *)
(* a key that is present, DS_nq appends, DS_dq removes the head, DS_remove *)
(* removes the current node, DS_flush only releases unused memory.         *)
(*                                                                         *)
(* A dereference of a NULL pointer is undefined behaviour.  It is modelled *)
(* as a choice between the process stopping ("fault") and the access       *)
(* touching memory outside the modelled objects (a write is lost, a read   *)
(* yields the value WILD).                                                 *)
(***************************************************************************)
EXTENDS Integers, Sequences, FiniteSets, TLC

VARIABLES
    \* ---- Routine (src/src/routine.cpp, src/unnamed/part_010) ----
    draft,      \* which draft of Routine::add_inst is linked
    blocks,     \* Routine::blocks, the list of basic blocks
    added,      \* the instructions handed to add_inst so far, in order
    rstatus,    \* "ok" | "fault"
    \* ---- opt_liveblock / Mk_blk (src/src/opt-liveblock.cpp) ----
    q,          \* prog_data->instructions, the linear instruction queue
    bq,         \* prog_data->bq, the queue of blocks made
    input,      \* the queue as it was handed to opt_liveblock
    mpc,        \* "idle" | "loop" | "done"
    \* ---- opt_dead / Liveness (src/unnamed/part_002, part_003) ----
    ldraft,     \* which draft of Liveness is linked
    blks,       \* the blocks of the routine, each a list of instructions
    orig,       \* the blocks as they were handed to opt_dead
    operands,   \* the operands held by the container (Operands index)
    live,       \* Operand::live of every operand, a Flag or WILD
    arg1,       \* the file-scope handles arg1, arg2
    arg2,
    bi,         \* the block Liveness is working on
    cur,        \* the position of inst in that block
    lpc,        \* "idle" | "start" | "loop" | "done" | "done2" | "fault"
    run,        \* 1: the pass of opt_dead, 2: Liveness called once more
    snap,       \* the blocks as the pass of opt_dead left them
    log,        \* the ordinals of the instructions the switch has handled
    errs,       \* the ordinals at which an internal error was reported
    \* ---- Obj_Index (src/src/obj_container.cpp, src/unnamed/part_006) ----
    odraft,     \* which draft of Obj_Index::add is linked
    index,      \* Obj_Index::index, the tree read in key order
    opos,       \* the current node of the tree (0: none, Len + 1: past the end)
    oret,       \* what the last call returned: an id, NULL, WILD or "none"
    ostatus,    \* "idle" | "ok" | "fault" | "terminate"
    nobj,       \* the objects constructed so far
    visited,    \* the ids first() and the next() calls after it have returned
    iter,       \* TRUE while only next() has been called since first()
    olast,      \* the last call: its name, argument, and the state before it
    \* ---- Object, Routine, Array under construction ----
    ckind,      \* "routine" | "object" | "array"
    sclass,     \* Object::sclass
    count,      \* Object::count, Array::count
    csets,      \* the set_count calls that have stored a count
    cstatus,    \* "idle" | "ok" | "terminate"
    clast,      \* the last mutator called, its argument, the state before it
    \* ---- x86() (src/src/gen-x86.cpp, src/unnamed/part_009) ----
    xdraft,     \* which draft of x86() is linked
    mode,       \* the file-scope mode of the emitter
    xarg,       \* the proccessor_mode handed to the call in progress
    objs,       \* prog->objects, the container read in key order
    size,       \* the bytes of every object of the container
    out,        \* what the call in progress has written to the sink
    xpc,        \* where x86() is, or how it ended
    xi,         \* the object the loop of x86() is at
    xcalls,     \* the calls of x86() made so far
    \* ---- Gen_routine, Gen_blk, Gen_inst (gen-x86.cpp, part_008/009) ----
    gdraft,     \* which draft of the emitter is linked
    gmode,      \* the processor mode the emitter builds for
    reg_d,      \* the register descriptor
    gblocks,    \* the number of blocks of the routine
    gb,         \* the block Gen_blk is at
    gi,         \* the instructions of that block generated so far
    gpc,        \* where the emitter is, or how it ended
    ginst,      \* the instruction Gen_inst was last handed
    gcalls,     \* the helper calls Gen_inst made for it
    gflush,     \* the flush just made: the descriptor, what was stored
    gsize,      \* the sizes of auto_storage and formal_params
    gtemps,     \* routine->concurrent_temps
    gtick,      \* the parity of the turns of the stack temps loop
    gslots,     \* the temporaries push_temp has given a place in the frame
    frame_sz,   \* the statics of gen-x86.cpp
    param_sz,
    gtext       \* the operands written after enter and ret

rvars == <<draft, blocks, added, rstatus>>
mvars == <<q, bq, input, mpc>>
lvars == <<ldraft, blks, orig, operands, live, arg1, arg2, bi, cur, lpc, run,
           snap, log, errs>>
ovars == <<odraft, index, opos, oret, ostatus, nobj, visited, iter, olast>>
cvars == <<ckind, sclass, count, csets, cstatus, clast>>
xvars == <<xdraft, mode, xarg, objs, size, out, xpc, xi, xcalls>>
gvars == <<gdraft, gmode, reg_d, gblocks, gb, gi, gpc, ginst, gcalls, gflush,
           gsize, gtemps, gtick, gslots, frame_sz, param_sz, gtext>>
vars  == <<rvars, mvars, lvars, ovars, cvars, xvars, gvars>>

NULL == "NULL"
WILD == "WILD"      \* the content of memory nobody has written
\* a bool that may be uninitialised: "true" | "false" | WILD
Flag(b) == IF b THEN "true" ELSE "false"

(***************************************************************************)
(* Bounds                                                                  *)
(***************************************************************************)
MaxInst == 4        \* instructions handed to the block former
MaxLen  == 3        \* instructions of the routine handed to opt_dead
MaxBlk  == 2        \* blocks of the routine handed to opt_dead
MaxObj  == 3        \* objects constructed for the object container
MaxCount == 3       \* the largest element count handed to set_count
MaxMembers == 3     \* members of the structure whose layout is varied
MaxGBlk == 2        \* blocks of the routine handed to the emitter
MaxGInst == 8       \* instructions of one block handed to Gen_blk
MaxSize == 9        \* bytes of the automatics, and of the parameters
MaxCalls == 2       \* calls of x86() in one run of the program

(***************************************************************************)
(* Instructions as the block former sees them: the opcode decides, the     *)
(* ordinal n tells the instructions of one stream apart.                   *)
(***************************************************************************)
FormerOps == {"add", "lbl", "jmp", "jz", "loop", "rtrn", "call"}

RoutineDrafts == {"routine.cpp", "part_010"}

\* the condition of the second if of Routine::add_inst
IsBranch(d, op) ==
    IF d = "routine.cpp"
    THEN op \in {"jmp", "jz"}
    ELSE op \in {"jmp", "jz", "loop", "rtrn", "call"}

\* the exit test of Mk_blk
IsExit(op) == op \in {"jmp", "jz", "rtrn", "call"}

\* the terminator set of the design
Terminators == {"jmp", "jz", "loop", "rtrn", "call"}

RECURSIVE Flatten(_)
Flatten(bs) == IF bs = <<>> THEN <<>> ELSE Head(bs) \o Flatten(Tail(bs))

(***************************************************************************)
(* Routine::Routine and Routine::add_inst                                  *)
(***************************************************************************)
RoutineInit ==
    /\ draft \in RoutineDrafts
    /\ blocks = <<>>
    /\ added = <<>>
    /\ rstatus = "ok"

RoutineIdle ==
    /\ draft = "routine.cpp"
    /\ blocks = <<>>
    /\ added = <<>>
    /\ rstatus = "idle"

\* Block::enqueue on the last block of the list
EnqueueLast(bs, inst) ==
    [bs EXCEPT ![Len(bs)] = Append(bs[Len(bs)], inst)]

add_inst(op) ==
    /\ rstatus = "ok"
    /\ Len(added) < MaxInst
    /\ LET inst == [op |-> op, n |-> Len(added) + 1]
           \* a label is a leader
           b1 == IF op = "lbl" /\ blocks # <<>>
                 THEN Append(blocks, <<>>) ELSE blocks
           \* a branch makes the next instruction a leader
           close(bs) == IF IsBranch(draft, op) THEN Append(bs, <<>>) ELSE bs
       IN  /\ added' = Append(added, inst)
           /\ IF b1 = <<>>
              THEN \* DS_last() is NULL: last_blk->enqueue() is undefined
                   \/ /\ rstatus' = "fault"
                      /\ blocks' = b1
                   \/ /\ rstatus' = "ok"
                      /\ blocks' = close(b1)
              ELSE /\ rstatus' = "ok"
                   /\ blocks' = close(EnqueueLast(b1, inst))
    /\ UNCHANGED <<draft, mvars, lvars, ovars, cvars, xvars, gvars>>

(***************************************************************************)
(* Mk_blk and the loop of opt_liveblock                                    *)
(***************************************************************************)
InstSeqs(k) ==
    { [i \in 1..k |-> [op |-> f[i], n |-> i]] : f \in [1..k -> FormerOps] }

MkInit ==
    /\ \E k \in 0..MaxInst : q \in InstSeqs(k)
    /\ input = q
    /\ bq = <<>>
    /\ mpc = "loop"

MkIdle ==
    /\ q = <<>>
    /\ input = <<>>
    /\ bq = <<>>
    /\ mpc = "idle"

\* the while loop of Mk_blk: q->first() peeks, q->dq() removes the head
RECURSIVE Mk_blk_fill(_, _)
Mk_blk_fill(blk, qq) ==
    IF qq = <<>> THEN [blk |-> blk, q |-> qq]
    ELSE LET inst == Head(qq) IN
         IF inst.op = "lbl" THEN [blk |-> blk, q |-> qq]
         ELSE IF IsExit(inst.op)
              THEN [blk |-> Append(blk, inst), q |-> Tail(qq)]
              ELSE Mk_blk_fill(Append(blk, inst), Tail(qq))

\* Mk_blk on a non-empty queue
Mk_blk(qq) ==
    LET inst == Head(qq) IN
    IF IsExit(inst.op)
    THEN [blk |-> <<inst>>, q |-> Tail(qq)]
    ELSE Mk_blk_fill(<<inst>>, Tail(qq))

\* one turn of  while(( blk_pt = Mk_blk(...) ))  that makes a block
opt_liveblock_blk ==
    /\ mpc = "loop"
    /\ q # <<>>
    /\ LET r == Mk_blk(q) IN
         /\ q' = r.q
         /\ bq' = Append(bq, r.blk)
    /\ UNCHANGED <<input, mpc, rvars, lvars, ovars, cvars, xvars, gvars>>

\* Mk_blk returns NULL on the empty queue and the loop ends
opt_liveblock_end ==
    /\ mpc = "loop"
    /\ q = <<>>
    /\ mpc' = "done"
    /\ UNCHANGED <<q, bq, input, rvars, lvars, ovars, cvars, xvars, gvars>>


(***************************************************************************)
(* opt_dead and Liveness                                                   *)
(*                                                                         *)
(* Operand::live is set by no constructor (Operands::add leaves it as it   *)
(* is on the stack) and Instruction::used_next by none either: both start  *)
(* as WILD, and a read of a WILD flag finds either value.  Operands::remove*)
(* frees the record the instructions point to: its flag is WILD again.     *)
(***************************************************************************)
Objs  == {"a", "t1", "t2"}
Temps == {"t1", "t2"}               \* the operands of type st_temp

LiveDrafts == {"part_002", "part_003"}

I0(op)          == [op |-> op, result |-> NULL, left |-> NULL, right |-> NULL]
I1(op, l)       == [op |-> op, result |-> NULL, left |-> l, right |-> NULL]
I2(op, r, l)    == [op |-> op, result |-> r, left |-> l, right |-> NULL]
I3(op, r, l, x) == [op |-> op, result |-> r, left |-> l, right |-> x]

\* the quads a block is made of
Quads ==
    { I0("nop"), I1("proc", "a"), I0("rtrn"),
      I2("ass", "a", "t1"), I2("ass", "t1", "a"),
      I3("mul", "t1", "a", "a"), I3("mul", "t2", "a", "a"),
      I3("mul", "a", "a", "t1"), I3("cpy", "a", "a", "a") }

Inst(qd, n) ==
    [n |-> n, op |-> qd.op, result |-> qd.result, left |-> qd.left,
     right |-> qd.right, used_next |-> WILD]

\* the case labels of the switch of Liveness
OpClass(d, op) ==
    IF d = "part_002"
    THEN CASE op = "nop" -> "none"
           [] op \in {"lbl", "call", "parm", "proc", "jmp", "jz", "loop",
                      "rtrn"} -> "nores"
           [] op \in {"ass", "ref", "dref", "neg", "not", "inv", "inc",
                      "dec", "sz"} -> "unary"
           [] op \in {"mul", "div", "mod", "exp", "lsh", "rsh", "rol",
                      "ror", "add", "sub", "band", "bor", "xor", "eq",
                      "neq", "lt", "gt", "lte", "gte", "and", "or"}
                -> "binary"
           [] OTHER -> "unknown"
    ELSE \* part_003 spells the return i_ret
         CASE op \in {"lbl", "jmp", "jt", "jf", "rtrn"} -> "nores"
           [] op \in {"ass", "call"} -> "none"
           [] op \in {"neg", "not", "inv", "inc", "dec", "sz"} -> "unary"
           [] op \in {"mul", "div", "mod", "shl", "shr", "rol", "ror",
                      "add", "sub", "xor", "and", "or", "cpy"} -> "binary"
           [] OTHER -> "unknown"

\* a routine: a stream of at most MaxLen quads cut into at most MaxBlk
\* blocks, none of them empty unless the routine has no instruction at all
Stream(f, k) == [i \in 1..k |-> Inst(f[i], i)]

RECURSIVE Splits(_, _)
Splits(s, k) ==
    IF k <= 1 \/ Len(s) <= 1 THEN { <<s>> }
    ELSE { <<s>> } \cup
         UNION { { <<SubSeq(s, 1, c)>> \o rest :
                   rest \in Splits(SubSeq(s, c + 1, Len(s)), k - 1) }
                 : c \in 1..(Len(s) - 1) }

Routines(k) == [1..k -> Quads]

IsTemp(o) == o \in Temps            \* inst->result->type == st_temp

\* used_next computed from arg1 alone
UsedNext_m(result, a1, a2) == result = a1

\* used_next as the unary and binary cases compute it
UsedNext(result, a1, a2) == result = a1 \/ result = a2

\* Block::remove on the current instruction
RemoveAt(b, c) == SubSeq(b, 1, c - 1) \o SubSeq(b, c + 1, Len(b))

\* opt_dead comes to block b: Liveness returns at once on an empty block
RECURSIVE EnterFrom(_, _)
EnterFrom(bs, b) ==
    IF b > Len(bs) THEN [pc |-> "done", bi |-> Len(bs), cur |-> 0]
    ELSE IF bs[b] = <<>> THEN EnterFrom(bs, b + 1)
    ELSE [pc |-> "loop", bi |-> b, cur |-> Len(bs[b])]

\* while(( inst = blk->prev() )), then the return into the loop of opt_dead
After(bs, b, c) ==
    IF c > 1 THEN [pc |-> "loop", bi |-> b, cur |-> c - 1]
    ELSE IF run = 2 THEN [pc |-> "done2", bi |-> b, cur |-> 0]
    ELSE EnterFrom(bs, b + 1)

\* Liveness is entered again (arg1 = arg2 = NULL) when the block is finished
\* and opt_dead has another block
Reentered(bs, b, c) == c <= 1 /\ run = 1 /\ b < Len(bs)

LiveInit ==
    /\ ldraft \in LiveDrafts
    /\ \E k \in 0..MaxLen : \E f \in Routines(k) :
           blks \in Splits(Stream(f, k), MaxBlk)
    /\ orig = blks
    /\ operands = Objs
    /\ live = [o \in Objs |-> WILD]
    /\ arg1 = NULL
    /\ arg2 = NULL
    /\ bi = 1
    /\ cur = 0
    /\ lpc = "start"
    /\ run = 1
    /\ snap = <<>>
    /\ log = <<>>
    /\ errs = {}

LiveIdle ==
    /\ ldraft = "part_002"
    /\ blks = <<>>
    /\ orig = <<>>
    /\ operands = {}
    /\ live = <<>>
    /\ arg1 = NULL
    /\ arg2 = NULL
    /\ bi = 0
    /\ cur = 0
    /\ lpc = "idle"
    /\ run = 0
    /\ snap = <<>>
    /\ log = <<>>
    /\ errs = {}

\* opt_dead up to the first switch of Liveness
opt_dead ==
    /\ lpc = "start"
    /\ LET e == EnterFrom(blks, 1) IN
         /\ lpc' = e.pc
         /\ bi' = e.bi
         /\ cur' = e.cur
    /\ arg1' = NULL
    /\ arg2' = NULL
    /\ UNCHANGED <<ldraft, blks, orig, operands, live, run, snap, log, errs,
                   rvars, mvars, ovars, cvars, xvars, gvars>>

inst == blks[bi][cur]

\* the control part every case of the switch shares
Continue(bs, a1, a2) ==
    LET nx == After(bs, bi, cur) IN
    /\ lpc' = nx.pc
    /\ bi' = nx.bi
    /\ cur' = nx.cur
    /\ arg1' = IF Reentered(bs, bi, cur) THEN NULL ELSE a1
    /\ arg2' = IF Reentered(bs, bi, cur) THEN NULL ELSE a2
    /\ log' = Append(log, inst.n)
    /\ UNCHANGED <<ldraft, orig, run, snap, rvars, mvars, ovars, cvars,
                   xvars, gvars>>

SetInst(f) == [blks EXCEPT ![bi][cur] = f]

\* case i_nop (part_002), case i_ass / i_call (part_003): break
Liveness_none ==
    /\ lpc = "loop"
    /\ OpClass(ldraft, inst.op) = "none"
    /\ blks' = blks
    /\ Continue(blks, arg1, arg2)
    /\ UNCHANGED <<operands, live, errs>>

\* the cases without a result
Liveness_nores ==
    /\ lpc = "loop"
    /\ OpClass(ldraft, inst.op) = "nores"
    /\ IF inst.left = NULL
       THEN \* inst->left->live = true  writes through NULL
            \/ /\ lpc' = "fault"
               /\ UNCHANGED <<blks, operands, live, errs, arg1, arg2, bi,
                              cur, log, ldraft, orig, run, snap, rvars,
                              mvars, ovars, cvars, xvars, gvars>>
            \/ /\ blks' = SetInst([inst EXCEPT !.used_next = "false"])
               /\ Continue(blks', NULL, NULL)
               /\ UNCHANGED <<operands, live, errs>>
       ELSE /\ live' = [live EXCEPT ![inst.left] = "true"]
            /\ blks' = SetInst([inst EXCEPT !.used_next = "false"])
            /\ Continue(blks', inst.left, NULL)
            /\ UNCHANGED <<operands, errs>>

\* if(inst->result->type == st_temp && !inst->result->live): a WILD flag
\* reads as either value
Dead(result, v) == IsTemp(result) /\ v = "false"
Reads(l) == IF l = WILD THEN {"true", "false"} ELSE {l}

\* operands->remove(...); blk->remove(); break;
Prune ==
    /\ operands' = operands \ {inst.result}
    /\ live' = [live EXCEPT ![inst.result] = WILD]
    /\ blks' = [blks EXCEPT ![bi] = RemoveAt(blks[bi], cur)]
    /\ Continue(blks', arg1, arg2)
    /\ UNCHANGED errs

\* the unary cases
Liveness_unary ==
    /\ lpc = "loop"
    /\ OpClass(ldraft, inst.op) = "unary"
    /\ \E v \in (IF IsTemp(inst.result) THEN Reads(live[inst.result])
                 ELSE {"true"}) :
         IF Dead(inst.result, v)
         THEN Prune
         ELSE /\ live' = [live EXCEPT ![inst.result] = "false",
                                      ![inst.left] = "true"]
              /\ blks' = SetInst([inst EXCEPT !.used_next =
                                    Flag(UsedNext(inst.result, arg1, arg2))])
              /\ Continue(blks', inst.left, NULL)
              /\ UNCHANGED <<operands, errs>>

\* the binary cases
Liveness_binary ==
    /\ lpc = "loop"
    /\ OpClass(ldraft, inst.op) = "binary"
    /\ \E v \in (IF IsTemp(inst.result) THEN Reads(live[inst.result])
                 ELSE {"true"}) :
         IF Dead(inst.result, v)
         THEN Prune
         ELSE /\ live' = [live EXCEPT ![inst.result] = "false",
                                      ![inst.left] = "true",
                                      ![inst.right] = "true"]
              /\ blks' = SetInst([inst EXCEPT !.used_next =
                                    Flag(UsedNext(inst.result, arg1, arg2))])
              /\ Continue(blks', inst.left, inst.right)
              /\ UNCHANGED <<operands, errs>>

\* case i_NUM: default:  the error is reported and the loop goes on
Liveness_unknown ==
    /\ lpc = "loop"
    /\ OpClass(ldraft, inst.op) = "unknown"
    /\ errs' = errs \cup {inst.n}
    /\ blks' = blks
    /\ Continue(blks, arg1, arg2)
    /\ UNCHANGED <<operands, live>>

\* Liveness called once more on the block it has just left
Liveness_again ==
    /\ lpc = "done"
    /\ run = 1
    /\ bi >= 1
    /\ blks[bi] # <<>>
    /\ run' = 2
    /\ snap' = blks
    /\ lpc' = "loop"
    /\ cur' = Len(blks[bi])
    /\ arg1' = NULL
    /\ arg2' = NULL
    /\ UNCHANGED <<ldraft, blks, orig, operands, live, bi, log, errs, rvars,
                   mvars, ovars, cvars, xvars, gvars>>

(***************************************************************************)
(* Obj_Index                                                               *)
(*                                                                         *)
(* The index is a tree without duplicates keyed by the label of the object *)
(* and compared with strcmp; it is held here as the sequence of its nodes  *)
(* in key order.  DS_find, DS_first and DS_next make the node they return  *)
(* the current node (Obj_Index::remove relies on it).  next() is called    *)
(* with a current node, as the callers do (after first(), find(), next()). *)
(* `throw;` outside a handler ends the program through std::terminate.     *)
(***************************************************************************)
Names == {"", "a", "b"}
NameOrder == <<"", "a", "b">>               \* the names in strcmp order

ObjDrafts == {"obj_container.cpp", "part_006"}

named(object) == object.name # ""           \* !label.empty()
obj_label(object) == object.name
lbl_cmp(left, right) ==
    LET Rank(n) == CHOOSE i \in DOMAIN NameOrder : NameOrder[i] = n
    IN  Rank(left) - Rank(right)

\* the node with this key, 0 for NULL
DS_find(ix, name) ==
    IF \E i \in DOMAIN ix : lbl_cmp(obj_label(ix[i]), name) = 0
    THEN CHOOSE i \in DOMAIN ix : lbl_cmp(obj_label(ix[i]), name) = 0
    ELSE 0

\* a list that takes the new node at its end
DS_insert_m(ix, object) == Append(ix, object)

\* the tree with the new node, for a key that is not present
DS_insert(ix, object) ==
    LET k == Cardinality({ i \in DOMAIN ix :
                             lbl_cmp(obj_label(ix[i]), obj_label(object)) < 0 })
    IN  SubSeq(ix, 1, k) \o <<object>> \o SubSeq(ix, k + 1, Len(ix))

DS_remove(ix, i) == SubSeq(ix, 1, i - 1) \o SubSeq(ix, i + 1, Len(ix))

ObjInit ==
    /\ odraft \in ObjDrafts
    /\ index = <<>>
    /\ opos = 0
    /\ oret = "none"
    /\ ostatus = "ok"
    /\ nobj = 0
    /\ visited = <<>>
    /\ iter = FALSE
    /\ olast = [op |-> "new", name |-> "", err |-> FALSE, before |-> <<>>,
                pos |-> 0]

ObjIdle ==
    /\ odraft = "obj_container.cpp"
    /\ index = <<>>
    /\ opos = 0
    /\ oret = "none"
    /\ ostatus = "idle"
    /\ nobj = 0
    /\ visited = <<>>
    /\ iter = FALSE
    /\ olast = [op |-> "new", name |-> "", err |-> FALSE, before |-> <<>>,
                pos |-> 0]

Called(op, name, err) ==
    olast' = [op |-> op, name |-> name, err |-> err, before |-> index,
              pos |-> opos]

\* return *(Object **)p  with p == NULL
DerefNull ==
    \/ /\ ostatus' = "fault"
       /\ oret' = oret
    \/ /\ ostatus' = "ok"
       /\ oret' = WILD

Obj_Index_add(name) ==
    /\ ostatus = "ok"
    /\ nobj < MaxObj
    /\ LET object == [id |-> nobj + 1, name |-> name] IN
         IF odraft = "part_006" /\ ~named(object)
         THEN \* msg_print(V_ERROR, "object has no name"); throw;
              /\ Called("add", name, TRUE)
              /\ ostatus' = "terminate"
              /\ UNCHANGED <<index, oret>>
         ELSE IF DS_find(index, obj_label(object)) # 0
              THEN \* DS_insert returns NULL for a key that is present
                   /\ Called("add", name, FALSE)
                   /\ DerefNull
                   /\ UNCHANGED index
              ELSE /\ Called("add", name, FALSE)
                   /\ index' = DS_insert(index, object)
                   /\ oret' = object.id
                   /\ ostatus' = "ok"
    /\ nobj' = nobj + 1
    /\ opos' = 0
    /\ visited' = <<>>
    /\ iter' = FALSE
    /\ UNCHANGED <<odraft, rvars, mvars, lvars, cvars, xvars, gvars>>

Obj_Index_remove(name) ==
    /\ ostatus = "ok"
    /\ LET i == DS_find(index, name) IN
         IF i # 0
         THEN /\ Called("remove", name, FALSE)
              /\ index' = DS_remove(index, i)
              /\ oret' = index[i].id
              /\ ostatus' = "ok"
         ELSE \* msg_print(V_ERROR, "no such object"); throw;
              /\ Called("remove", name, TRUE)
              /\ ostatus' = "terminate"
              /\ UNCHANGED <<index, oret>>
    /\ opos' = 0
    /\ visited' = <<>>
    /\ iter' = FALSE
    /\ UNCHANGED <<odraft, nobj, rvars, mvars, lvars, cvars, xvars, gvars>>

Obj_Index_find(name) ==
    /\ ostatus = "ok"
    /\ Called("find", name, FALSE)
    /\ LET i == DS_find(index, name) IN
         /\ opos' = i
         /\ IF i = 0
            THEN DerefNull
            ELSE /\ oret' = index[i].id
                 /\ ostatus' = "ok"
    /\ visited' = <<>>
    /\ iter' = FALSE
    /\ UNCHANGED <<odraft, index, nobj, rvars, mvars, lvars, cvars, xvars,
                   gvars>>

Obj_Index_first ==
    /\ ostatus = "ok"
    /\ Called("first", "", FALSE)
    /\ IF index = <<>>
       THEN \* DS_first returns NULL
            /\ DerefNull
            /\ opos' = 0
            /\ visited' = <<>>
            /\ iter' = FALSE
       ELSE /\ oret' = index[1].id
            /\ ostatus' = "ok"
            /\ opos' = 1
            /\ visited' = <<index[1].id>>
            /\ iter' = TRUE
    /\ UNCHANGED <<odraft, index, nobj, rvars, mvars, lvars, cvars, xvars,
                   gvars>>

Obj_Index_next ==
    /\ ostatus = "ok"
    /\ opos > 0
    /\ Called("next", "", FALSE)
    /\ IF opos >= Len(index)
       THEN \* DS_next returns NULL after the last node
            /\ DerefNull
            /\ opos' = Len(index) + 1
            /\ UNCHANGED <<visited, iter>>
       ELSE /\ oret' = index[opos + 1].id
            /\ ostatus' = "ok"
            /\ opos' = opos + 1
            /\ visited' = IF iter THEN Append(visited, index[opos + 1].id)
                          ELSE visited
            /\ UNCHANGED iter
    /\ UNCHANGED <<odraft, index, nobj, rvars, mvars, lvars, cvars, xvars,
                   gvars>>


(***************************************************************************)
(* Object, Routine and Array mutators                                      *)
(***************************************************************************)
storage_class_t ==
    {"sc_none", "sc_private", "sc_public", "sc_extern", "sc_stack",
     "sc_param", "sc_temp", "sc_const"}

Kinds == {"routine", "object", "array"}

\* Object::Object: sclass = sc_none, count = 1;  Array::Array: count =
\* quantity, 0 unless the caller gives one
ConsInit ==
    /\ ckind \in Kinds
    /\ sclass = "sc_none"
    /\ count \in (IF ckind = "array" THEN {0, 1} ELSE {1})
    /\ csets = 0
    /\ cstatus = "ok"
    /\ clast = [op |-> "new", arg |-> 0, before |-> 0, sets |-> 0,
                err |-> FALSE]

ConsIdle ==
    /\ ckind = "object"
    /\ sclass = "sc_none"
    /\ count = 1
    /\ csets = 0
    /\ cstatus = "idle"
    /\ clast = [op |-> "new", arg |-> 0, before |-> 0, sets |-> 0,
                err |-> FALSE]

\* msg_print(NULL, V_ERROR, ...); throw;
Rejected(op, arg, before) ==
    /\ clast' = [op |-> op, arg |-> arg, before |-> before, sets |-> csets,
                 err |-> TRUE]
    /\ cstatus' = "terminate"

Accepted(op, arg, before) ==
    /\ clast' = [op |-> op, arg |-> arg, before |-> before, sets |-> csets,
                 err |-> FALSE]
    /\ cstatus' = "ok"

Routine_set_sclass(storage_class) ==
    /\ cstatus = "ok"
    /\ ckind = "routine"
    /\ IF storage_class # "sc_private" /\ storage_class # "sc_private"
       THEN /\ Rejected("Routine::set_sclass", storage_class, sclass)
            /\ UNCHANGED sclass
       ELSE /\ Accepted("Routine::set_sclass", storage_class, sclass)
            /\ sclass' = storage_class
    /\ UNCHANGED <<ckind, count, csets, rvars, mvars, lvars, ovars, xvars,
                   gvars>>

Object_set_sclass(storage_class) ==
    /\ cstatus = "ok"
    /\ ckind # "routine"
    /\ IF sclass = "sc_none"
       THEN /\ Accepted("Object::set_sclass", storage_class, sclass)
            /\ sclass' = storage_class
       ELSE /\ Rejected("Object::set_sclass", storage_class, sclass)
            /\ UNCHANGED sclass
    /\ UNCHANGED <<ckind, count, csets, rvars, mvars, lvars, ovars, xvars,
                   gvars>>

\* the body Object::set_count and Array::set_count share
set_count(op, number) ==
    /\ cstatus = "ok"
    /\ IF count = 1
       THEN IF number # 0
            THEN /\ Accepted(op, number, count)
                 /\ count' = number
                 /\ csets' = csets + 1
            ELSE /\ Rejected(op, number, count)
                 /\ UNCHANGED <<count, csets>>
       ELSE /\ Rejected(op, number, count)
            /\ UNCHANGED <<count, csets>>
    /\ UNCHANGED <<ckind, sclass, rvars, mvars, lvars, ovars, xvars, gvars>>

Object_set_count(number) ==
    /\ ckind = "object"
    /\ csets < MaxCount
    /\ set_count("Object::set_count", number)

Array_set_count(number) ==
    /\ ckind = "array"
    /\ csets < MaxCount
    /\ set_count("Array::set_count", number)

(***************************************************************************)
(* x86(): sizes and structure offsets                                      *)
(*                                                                         *)
(* The container holds, in key order, the structure definitions r, s, t    *)
(* (or none of them), a routine f and a prime z.  A member of s is a prime *)
(* (named by its width) or an instance of r or t (named by its layout).    *)
(* Struct_def::bytes is set by no constructor: it starts as 0 or as some   *)
(* other value, GARBAGE.  Struct_def::members is an Obj_List, whose first()   *)
(* and next() return NULL at the end as the loops over it expect.          *)
(***************************************************************************)
BYTE  == 1
WORD  == 2
DWORD == 4
QWORD == 8

width_t == {"w_none", "w_byte", "w_byte2", "w_byte4", "w_byte8", "w_max",
            "w_word", "w_ptr"}
x86_mode_t == {"xm_real", "xm_smm", "xm_protected", "xm_long"}

\* no size: set_prime_size has thrown
THROW == 0

\* the bytes of a Struct_def nobody has set, when they are not 0
GARBAGE == -1

\* a size for every width but none, byte8 in any mode
set_prime_size_m(width, m) ==
    CASE width = "w_byte"  -> BYTE
      [] width = "w_byte2" -> WORD
      [] width = "w_byte4" -> DWORD
      [] width = "w_byte8" -> QWORD
      [] width \in {"w_word", "w_ptr", "w_max"}
            -> IF m = "xm_long" THEN QWORD ELSE DWORD
      [] OTHER -> THROW

\* the size set_prime_size gives, THROW where it throws
set_prime_size(width, m) ==
    CASE width = "w_byte"  -> BYTE
      [] width = "w_byte2" -> WORD
      [] width = "w_byte4" -> DWORD
      [] width = "w_byte8" -> IF m = "xm_long" THEN QWORD ELSE THROW
      [] width \in {"w_word", "w_ptr", "w_max"}
            -> IF m = "xm_long" THEN QWORD ELSE DWORD
      [] OTHER -> THROW

StructNames == {"r", "s", "t"}
FieldKinds == {"w_byte", "w_byte4", "r", "t"}

\* Struct_def::members of the three definitions
Members(o) == o.members

Obj(name) == CHOOSE o \in {objs[i] : i \in DOMAIN objs} : o.name = name

\* Data::get_size of a member once the sizes are available
FieldSize(f, sz, m) ==
    IF f \in StructNames THEN sz[f] ELSE set_prime_size(f, m)

\* a put_str: what is written, the label in it, the number in it
Tok(t, a, n) == [t |-> t, a |-> a, n |-> n]

Add(a, b) == IF a = GARBAGE \/ b = GARBAGE THEN GARBAGE ELSE a + b

\* the padding branch of set_struct_size for a member after the first
Align(bytes, fs, m) ==
    IF fs = GARBAGE \/ bytes = GARBAGE
    THEN <<Tok("align", "", GARBAGE)>>
    ELSE IF m = "xm_long" /\ fs > QWORD THEN <<Tok("align", "", QWORD)>>
    ELSE IF m = "xm_protected" /\ fs > DWORD
         THEN <<Tok("align", "", DWORD)>>
    ELSE IF bytes % fs # 0 THEN <<Tok("align", "", fs)>>
    ELSE <<>>

\* the second half of set_struct_size: the directive and the running total
RECURSIVE Layout(_, _, _, _, _)
Layout(fs, k, bytes, sz, m) ==
    IF k > Len(fs) THEN [out |-> <<>>, bytes |-> bytes]
    ELSE LET z == FieldSize(fs[k], sz, m)
             pad == IF k = 1 THEN <<>> ELSE Align(bytes, z, m)
             rest == Layout(fs, k + 1, Add(bytes, z), sz, m)
         IN  [out |-> pad \o <<Tok("resb", fs[k], z)>> \o rest.out,
              bytes |-> rest.bytes]

\* set_struct_size: the sizes of the members first (a member that is an
\* instance with no size yet has its layout sized, and written, here), then
\* the directive of the structure itself
RECURSIVE set_struct_size(_, _, _)
RECURSIVE MemberSizes(_, _, _, _)
MemberSizes(fs, k, sz, m) ==
    IF k > Len(fs) THEN [out |-> <<>>, sz |-> sz]
    ELSE IF fs[k] \in StructNames /\ sz[fs[k]] = 0
         THEN LET in == set_struct_size(fs[k], sz, m)
                  rest == MemberSizes(fs, k + 1, in.sz, m)
              IN  [out |-> in.out \o rest.out, sz |-> rest.sz]
         ELSE MemberSizes(fs, k + 1, sz, m)

set_struct_size(name, sz, m) ==
    LET fs == Members(Obj(name))
        ms == MemberSizes(fs, 1, sz, m)
        lay == Layout(fs, 1, 0, ms.sz, m)
    IN  [out |-> ms.out \o <<Tok("struc", name, 0)>> \o lay.out
                    \o <<Tok("endstrc", name, 0)>>,
         sz |-> [ms.sz EXCEPT ![name] = lay.bytes]]

(***************************************************************************)
(* x86()                                                                   *)
(***************************************************************************)
XDrafts == {"gen-x86.cpp", "part_009"}

Prime(name, width) ==
    [name |-> name, type |-> "ot_prime", width |-> width, members |-> <<>>,
     sclass |-> "sc_public"]
Struct_def(name, members) ==
    [name |-> name, type |-> "ot_struct_def", width |-> "w_none",
     members |-> members, sclass |-> "sc_private"]
Routine(name) ==
    [name |-> name, type |-> "ot_routine", width |-> "w_none",
     members |-> <<>>, sclass |-> "sc_private"]

FieldSeqs == UNION { [1..k -> FieldKinds] : k \in 1..MaxMembers }

\* the containers handed to x86(): empty, or the routine f, then the three
\* definitions or none, then the prime z or none
Structs ==
    { <<>> } \cup
    { <<Struct_def("r", <<"w_byte4", "w_byte">>), Struct_def("s", ms),
        Struct_def("t", <<"w_byte2">>)>> : ms \in FieldSeqs }
Primes == { <<>> } \cup { <<Prime("z", w)>> : w \in width_t }

XIdle ==
    /\ xdraft = "gen-x86.cpp"
    /\ mode = "xm_real"
    /\ xarg = "xm_real"
    /\ objs = <<>>
    /\ size = <<>>
    /\ out = <<>>
    /\ xpc = "idle"
    /\ xi = 0
    /\ xcalls = 0

XInit ==
    /\ xdraft \in XDrafts
    /\ mode = "xm_real"             \* a static with no initialiser
    /\ xarg = "xm_real"
    /\ \/ objs = <<>>
       \/ /\ xdraft = "gen-x86.cpp"
          /\ \E ss \in Structs : \E ps \in Primes :
                objs = <<Routine("f")>> \o ss \o ps
    /\ size \in [{objs[i].name : i \in DOMAIN objs} -> {0, GARBAGE}]
    /\ \A i \in DOMAIN objs :
          objs[i].type # "ot_struct_def" => size[objs[i].name] = 0
    /\ out = <<>>
    /\ xpc = "ready"
    /\ xi = 0
    /\ xcalls = 0

\* return *(Object **)DS_next(index) after the last object, in a loop
\* do{...}while(( obj=prog->objects.next() )): the process stops, or the
\* word read is 0 and the loop ends
LoopEnd(then) ==
    \/ xpc' = "fault"
    \/ xpc' = then

x86(proccessor_mode) ==
    /\ xdraft = "gen-x86.cpp"
    /\ xpc \in {"ready", "done", "nothing"}
    /\ xcalls < MaxCalls
    /\ xcalls' = xcalls + 1
    /\ xarg' = proccessor_mode
    /\ IF proccessor_mode # "xm_long" /\ proccessor_mode # "xm_protected"
       THEN \* msg_print(V_ERROR, "x86: Invalid mode"); throw;
            /\ xpc' = "terminate"
            /\ out' = <<>>
            /\ UNCHANGED <<mode, xi>>
       ELSE /\ mode' = proccessor_mode
            /\ out' = <<Tok("header", "", 0)>>
            /\ IF objs = <<>>
               THEN \* prog->objects.first() reads through NULL
                    /\ LoopEnd("nothing")
                    /\ xi' = 0
               ELSE /\ xpc' = "sizes"
                    /\ xi' = 1
    /\ UNCHANGED <<xdraft, objs, size, rvars, mvars, lvars, ovars, cvars,
                   gvars>>

\* set_size(obj) and the while of the first loop
x86_set_size ==
    /\ xpc = "sizes"
    /\ LET obj == objs[xi]
           next == IF xi < Len(objs)
                   THEN xpc' = "sizes" /\ xi' = xi + 1
                   ELSE LoopEnd("visibility") /\ xi' = xi
       IN  CASE obj.type = "ot_prime" ->
                  IF set_prime_size(obj.width, mode) = THROW
                  THEN /\ xpc' = "terminate"
                       /\ UNCHANGED <<size, out, xi>>
                  ELSE /\ size' = [size EXCEPT ![obj.name] =
                                      set_prime_size(obj.width, mode)]
                       /\ out' = out
                       /\ next
             [] obj.type = "ot_struct_def" ->
                  LET r == set_struct_size(obj.name, size, mode) IN
                  /\ size' = r.sz
                  /\ out' = out \o r.out
                  /\ next
             [] OTHER ->
                  /\ UNCHANGED <<size, out>>
                  /\ next
    /\ UNCHANGED <<xdraft, mode, xarg, objs, xcalls, rvars, mvars, lvars,
                   ovars, cvars, gvars>>

\* the switch of the visibility loop; every object handed to x86() here has
\* a storage class, so its sc_none / default case (a throw) is not met
Visibility(obj) ==
    CASE obj.sclass = "sc_public" -> <<Tok("global", obj.name, 0)>>
      [] obj.sclass = "sc_extern" -> <<Tok("extern", obj.name, 0)>>
      [] OTHER -> <<>>

ModeAlign == IF mode = "xm_long" THEN QWORD ELSE DWORD

\* static_data(dynamic_cast<Data*>(obj)) for a private or public object
static_data(obj) ==
    IF obj.type = "ot_prime" /\ obj.sclass \in {"sc_private", "sc_public"}
    THEN <<Tok("align", "", IF size[obj.name] > ModeAlign THEN ModeAlign
                            ELSE size[obj.name]),
           Tok("lbl", obj.name, 0),
           Tok("d", obj.name, size[obj.name])>>
    ELSE <<>>

\* the code of a routine, taken as one piece
Gen_routine(obj) ==
    IF obj.type = "ot_routine" THEN <<Tok("routine", obj.name, 0)>> ELSE <<>>

\* what one turn of a loop of x86() writes for the object it is at
Written(phase, obj) ==
    CASE phase = "visibility" -> Visibility(obj)
      [] phase = "data" -> static_data(obj)
      [] OTHER -> Gen_routine(obj)

\* what a whole pass over the container writes, one object after another
RECURSIVE Pass(_, _, _)
Pass(phase, os, k) ==
    IF k > Len(os) THEN <<>>
    ELSE Written(phase, os[k]) \o Pass(phase, os, k + 1)

x86_visibility ==
    /\ xpc = "visibility"
    /\ out' = out \o <<Tok("; Declaring Visibility", "", 0)>>
                  \o Pass("visibility", objs, 1)
    /\ LoopEnd("data")
    /\ UNCHANGED <<xdraft, mode, xarg, objs, size, xi, xcalls, rvars, mvars,
                   lvars, ovars, cvars, gvars>>

x86_static_data ==
    /\ xpc = "data"
    /\ out' = out \o <<Tok("section .data", "", 0),
                       Tok("align", "", ModeAlign)>>
                  \o Pass("data", objs, 1)
    /\ LoopEnd("code")
    /\ UNCHANGED <<xdraft, mode, xarg, objs, size, xi, xcalls, rvars, mvars,
                   lvars, ovars, cvars, gvars>>

x86_code ==
    /\ xpc = "code"
    /\ out' = out \o <<Tok("section .code", "", 0),
                       Tok("align", "", ModeAlign)>>
                  \o Pass("code", objs, 1)
    /\ LoopEnd("done")
    /\ UNCHANGED <<xdraft, mode, xarg, objs, size, xi, xcalls, rvars, mvars,
                   lvars, ovars, cvars, gvars>>

\* x86() of part_009: the tests read the file-scope mode, which is set
\* from the argument only after them
x86_part_009(proccessor_mode) ==
    /\ xdraft = "part_009"
    /\ xpc \in {"ready", "done", "rejected"}
    /\ xcalls < MaxCalls
    /\ xcalls' = xcalls + 1
    /\ xarg' = proccessor_mode
    /\ IF mode = "xm_real" \/ mode = "xm_smm"
       THEN /\ xpc' = "rejected"
            /\ out' = <<>>
            /\ UNCHANGED mode
       ELSE /\ mode' = proccessor_mode
            /\ out' = <<Tok("section .text", "", 0),
                        Tok("section .data", "", 0),
                        Tok("section .bss", "", 0)>>
            /\ xpc' = "done"
    /\ UNCHANGED <<xdraft, objs, size, xi, rvars, mvars, lvars, ovars,
                   cvars, gvars>>

(***************************************************************************)
(* The emitter of one routine: Gen_routine, Gen_blk, Gen_inst and the      *)
(* register descriptor reg_d.                                              *)
(*                                                                         *)
(* Three drafts are kept apart: part_008 (load/store/binary, the flush of  *)
(* Gen_blk), part_009 (get_reg/load/store/unary/binary, driven by the loop *)
(* of x86() over the block queue) and gen-x86.cpp (Gen_routine with the    *)
(* stack temps, the padding and enter/ret, binary_r, mul, div, neg_r).     *)
(* Load_prime and Stash of gen-x86.cpp have no body in the sources (they   *)
(* are commented out): they follow the description of Load and Stash.      *)
(* The instructions of a block are supplied one by one as Gen_blk reads    *)
(* them with blk->next().  Of the text written only the operands of enter  *)
(* and ret and the registers written back at the end of a block are kept.  *)
(***************************************************************************)
Regs == <<"A", "B", "C", "D", "SI", "DI", "BP", "SP",
          "R8", "R9", "R10", "R11", "R12", "R13", "R14", "R15">>
RegSet == { Regs[i] : i \in DOMAIN Regs }
NUM_reg == "NUM_reg"
Extended == { Regs[i] : i \in 9..16 }           \* R8-R15

TREG_P == 1
TREG_L == 9

GDrafts == {"part_008", "part_009", "gen-x86.cpp"}
GModes == {"xm_protected", "xm_long"}

\* the operands of the routine: x and y have a home in memory, t is a
\* temporary (sc_temp, st_temp)
GObjs == {"x", "y", "t"}
is_mem(o) == o \in {"x", "y"}
sc_temp(o) == o = "t"

\* the instructions Gen_inst is handed
GInsts ==
    { I3("add", "t", "x", "y"), I3("add", "x", "y", "x"),
      I3("add", "x", "y", "t"), I3("mul", "t", "x", "y"),
      I3("div", "t", "x", "y"), I2("neg", "t", "x"), I0("nop") }

\* the instructions of a routine that only declares its frame
FrameInsts == { I0("nop") }

\* routine->concurrent_temps: none, or more than the registers set aside
ConcurrentTemps == {0, TREG_P + 1, TREG_L + 1}

Least(S) == CHOOSE x \in S : \A y \in S : x <= y

Clear == [r \in RegSet |-> NULL]                \* memset(reg_d, 0, ...)

\* the padding of Gen_routine: sz += W - (sz & mask)
Pad(sz, m) ==
    IF m = "xm_long" THEN sz + QWORD - (sz % 16)
    ELSE sz + DWORD - (sz % 8)

\* sprintf(array, "0x%llu", num): the decimal digits of num after "0x"
RECURSIVE Decimal(_)
Decimal(num) ==
    IF num < 10 THEN <<num>> ELSE Append(Decimal(num \div 10), num % 10)
str_num(num) == [prefix |-> "0x", digits |-> Decimal(num)]

\* one call of a helper, as Gen_inst made it
Call(fn, reg, arg, pre, post, wrote) ==
    [fn |-> fn, reg |-> reg, arg |-> arg, pre |-> pre, post |-> post,
     wrote |-> wrote]

\* what a function leaves: the descriptor, the helper calls, how it ended
Done(d, calls, pc) == [d |-> d, calls |-> calls, pc |-> pc]

check_reg(d, operand) ==
    LET hit == { i \in DOMAIN Regs : d[Regs[i]] = operand }
    IN  IF hit = {} THEN NUM_reg ELSE Regs[Least(hit)]

\* ---- part_008 ----
load(d, reg, mem) ==
    LET test_reg == check_reg(d, mem)
    IN  IF test_reg = reg THEN [d EXCEPT ![reg] = mem]
        ELSE IF test_reg # NUM_reg
             THEN [d EXCEPT ![test_reg] = NULL, ![reg] = mem]
             ELSE [d EXCEPT ![reg] = mem]

\* binary, mul, div, mod: load(A, left); load(C, right); reg_d[A] = result
binary(d, ins) ==
    LET d1 == load(d, "A", ins.left)
        d2 == load(d1, "C", ins.right)
    IN  Done([d2 EXCEPT !["A"] = ins.result],
             <<Call("load", "A", ins.left, d, d1, FALSE),
               Call("load", "C", ins.right, d1, d2, FALSE)>>, "inst")

\* unary: load(A, arg);  the result is not recorded (FIXME in the source)
unary(d, ins) ==
    LET d1 == load(d, "A", ins.left)
    IN  Done(d1, <<Call("load", "A", ins.left, d, d1, FALSE)>>, "inst")

\* the end of Gen_inst: push_temp(A) throws unless reg_d[A] is a temporary
Stack_temp(o, ins, used_next) ==
    IF ~used_next /\ sc_temp(ins.result) /\ ~sc_temp(o.d["A"])
    THEN [o EXCEPT !.pc = "terminate"]
    ELSE o

\* push_temp(A) on a temporary gives it the next place of the frame
push_temp(slots, o, ins, used_next) ==
    IF ~used_next /\ sc_temp(ins.result) /\ sc_temp(o.d["A"])
    THEN slots \cup {o.d["A"]}
    ELSE slots

Gen_inst_008(d, ins, used_next) ==
    CASE ins.op = "nop" -> Done(d, <<>>, "inst")
      [] ins.op = "neg" -> Stack_temp(unary(d, ins), ins, used_next)
      [] OTHER -> Stack_temp(binary(d, ins), ins, used_next)

\* ---- part_009 ----
load_009(d, reg, mem) ==
    IF d[reg] # NULL THEN [ret |-> "failure", d |-> d]
    ELSE [ret |-> "success", d |-> [d EXCEPT ![reg] = mem]]

\* store: failure on an empty register, a mov only for st_data
store_009(d, reg) ==
    [ret |-> IF d[reg] = NULL THEN "failure" ELSE "success",
     wrote |-> d[reg] # NULL /\ is_mem(d[reg])]

\* the order in which get_reg looks for an empty register
Preference(m) ==
    <<"A", "B", "BP">> \o
    (IF m = "xm_long" THEN SubSeq(Regs, 9, 16) ELSE <<>>) \o
    <<"C", "D", "SI", "DI">>

\* get_reg that returns the accumulator as it is when nothing is empty
get_reg_m(d, m, arg) ==
    LET held == IF arg # NULL THEN check_reg(d, arg) ELSE NUM_reg
        order == Preference(m)
        empty == { i \in DOMAIN order : d[order[i]] = NULL }
    IN  IF held # NUM_reg THEN [reg |-> held, d |-> d, wrote |-> FALSE]
        ELSE IF empty # {}
             THEN [reg |-> order[Least(empty)], d |-> d, wrote |-> FALSE]
             ELSE [reg |-> "A", d |-> d, wrote |-> FALSE]

get_reg(d, m, arg) ==
    LET held == IF arg # NULL THEN check_reg(d, arg) ELSE NUM_reg
        order == Preference(m)
        empty == { i \in DOMAIN order : d[order[i]] = NULL }
        st == store_009(d, "A")
    IN  IF held # NUM_reg THEN [reg |-> held, d |-> d, wrote |-> FALSE]
        ELSE IF empty # {}
             THEN [reg |-> order[Least(empty)], d |-> d, wrote |-> FALSE]
             ELSE IF st.ret = "failure"
                  THEN [reg |-> NUM_reg, d |-> d, wrote |-> FALSE]
                  ELSE [reg |-> "A", d |-> [d EXCEPT !["A"] = NULL],
                        wrote |-> st.wrote]

\* binary: result_reg = get_reg(left); reg_d[result_reg] = result
binary_009(d, m, ins) ==
    LET g == get_reg(d, m, ins.left)
    IN  Done([g.d EXCEPT ![g.reg] = ins.result],
             <<Call("get_reg", g.reg, ins.left, d, g.d, g.wrote)>>, "inst")

unary_009(d, m, ins) ==
    LET g == get_reg(d, m, ins.left)
        gc == Call("get_reg", g.reg, ins.left, d, g.d, g.wrote)
        arg_reg == check_reg(g.d, ins.left)
        l == load_009(g.d, g.reg, ins.left)
    IN  IF arg_reg = NUM_reg
        THEN IF l.ret = "failure" THEN Done(l.d, <<gc>>, "failed")
             ELSE Done([l.d EXCEPT ![g.reg] = ins.result],
                       <<gc, Call("load", g.reg, ins.left, g.d, l.d, FALSE)>>,
                       "inst")
        ELSE IF arg_reg # g.reg THEN Done(g.d, <<gc>>, "failed")
        ELSE Done([g.d EXCEPT ![g.reg] = ins.result], <<gc>>, "inst")

Gen_inst_009(d, m, ins) ==
    CASE ins.op = "neg" -> unary_009(d, m, ins)
      [] ins.op = "add" -> binary_009(d, m, ins)
      [] OTHER -> Done(d, <<>>, "inst")         \* i_mul, i_div, ...: break

\* ---- gen-x86.cpp ----
\* Stash(reg): nothing for an empty register or a non-temp; a temp goes to
\* a free register if there is one (the first in the order of get_reg),
\* else to a slot of the frame
Stash(d, m, reg) ==
    LET order == Preference(m)
        free == { i \in DOMAIN order : d[order[i]] = NULL }
    IN  IF d[reg] = NULL \/ ~sc_temp(d[reg]) THEN d
        ELSE IF free = {} THEN [d EXCEPT ![reg] = NULL]
        ELSE [d EXCEPT ![order[Least(free)]] = d[reg], ![reg] = NULL]

\* Load(reg, src): exchange when src is in another register, else stash
\* the occupant and move from memory
Load_prime(d, m, reg, source) ==
    LET ex_reg == check_reg(d, source)
    IN  IF d[reg] = source THEN d
        ELSE IF ex_reg # NUM_reg
             THEN [d EXCEPT ![reg] = source, ![ex_reg] = d[reg]]
             ELSE [Stash(d, m, reg) EXCEPT ![reg] = source]

\* binary_r, neg_r: Load_prime(A, dest); reg_d.set_val(A, result)
binary_r(d, m, ins) ==
    LET d1 == Load_prime(d, m, "A", ins.left)
    IN  Done([d1 EXCEPT !["A"] = ins.result],
             <<Call("Load_prime", "A", ins.left, d, d1, FALSE)>>, "inst")

\* mul: Load_prime(A, dest); Load_prime(D, source); set_val(D, result)
mul(d, m, ins) ==
    LET d1 == Load_prime(d, m, "A", ins.left)
        d2 == Load_prime(d1, m, "D", ins.right)
    IN  Done([d2 EXCEPT !["D"] = ins.result],
             <<Call("Load_prime", "A", ins.left, d, d1, FALSE),
               Call("Load_prime", "D", ins.right, d1, d2, FALSE)>>, "inst")

\* div: as mul, the result in A for r_div and in D for r_mod
div(d, m, ins) ==
    LET o == mul(d, m, ins)
    IN  IF ins.op = "div"
        THEN [o EXCEPT !.d = [o.calls[2].post EXCEPT !["A"] = ins.result]]
        ELSE o

Gen_inst_x86(d, m, ins) ==
    CASE ins.op \in {"add", "neg"} -> binary_r(d, m, ins)
      [] ins.op = "mul" -> mul(d, m, ins)
      [] ins.op \in {"div", "mod"} -> div(d, m, ins)
      [] OTHER -> Done(d, <<>>, "inst")         \* default: an error message

\* the registers the flush at the end of Gen_blk writes back
Flush(dr, d) ==
    CASE dr = "part_008" ->
             { Regs[i] : i \in { j \in 1..8 : d[Regs[j]] # NULL /\
                                              is_mem(d[Regs[j]]) } }
      [] dr = "part_009" ->
             { r \in RegSet : d[r] # NULL /\ store_009(d, r).wrote }
      [] OTHER -> {}                            \* Store(reg){}

GenIdle ==
    /\ gdraft = "part_008"
    /\ gmode = "xm_protected"
    /\ reg_d = <<>>
    /\ gblocks = 0
    /\ gb = 0
    /\ gi = 0
    /\ gpc = "idle"
    /\ ginst = I0("nop")
    /\ gcalls = <<>>
    /\ gflush = [at |-> <<>>, regs |-> {}]
    /\ gsize = [auto |-> 0, formal |-> 0]
    /\ gtemps = 0
    /\ gtick = 0
    /\ gslots = {}
    /\ frame_sz = 0
    /\ param_sz = 0
    /\ gtext = [enter |-> <<>>, ret |-> <<>>]

\* the routine handed to the emitter; reg_d is a static, zero at the start
GenInputs(drafts, sizes) ==
    /\ gdraft \in drafts
    /\ gmode \in GModes
    /\ reg_d = Clear
    /\ gblocks \in 0..MaxGBlk
    /\ gb = 0
    /\ gi = 0
    /\ gpc = "start"
    /\ ginst = I0("nop")
    /\ gcalls = <<>>
    /\ gflush = [at |-> Clear, regs |-> {}]
    /\ \E a \in sizes : \E f \in sizes :
          gsize = IF gdraft = "gen-x86.cpp" THEN [auto |-> a, formal |-> f]
                  ELSE [auto |-> 0, formal |-> 0]
    /\ gtemps \in (IF gdraft = "gen-x86.cpp" THEN ConcurrentTemps ELSE {0})
    /\ gtick = 0
    /\ gslots = {}
    /\ frame_sz = 0
    /\ param_sz = 0
    /\ gtext = [enter |-> <<>>, ret |-> <<>>]

GenInit == GenInputs(GDrafts, {0})

\* the routines whose frame is laid out: gen-x86.cpp, sizes up to MaxSize
FrameInit == GenInputs({"gen-x86.cpp"}, 0..MaxSize)

\* Gen_routine up to the first block (x86() of part_009 up to Gen_blk)
Gen_routine_enter ==
    /\ gpc = "start"
    /\ LET stack_temps ==
               gtemps - (IF gmode = "xm_protected" THEN TREG_P ELSE TREG_L)
           entered == IF gblocks = 0
                      THEN (IF gdraft = "part_009" THEN "done"
                            ELSE "terminate")
                      ELSE "inst"
       IN  IF gdraft = "gen-x86.cpp" /\ stack_temps > 0
           THEN /\ gpc' = "stack_temps"
                /\ UNCHANGED <<reg_d, gb, frame_sz, param_sz, gtext>>
           ELSE /\ gpc' = entered
                /\ gb' = IF gblocks = 0 THEN 0 ELSE 1
                /\ reg_d' = Clear
                /\ IF gdraft = "gen-x86.cpp"
                   THEN /\ frame_sz' = Pad(gsize.auto, gmode)
                        /\ param_sz' = Pad(gsize.formal, gmode)
                        /\ gtext' = [gtext EXCEPT !.enter = str_num(frame_sz')]
                   ELSE UNCHANGED <<frame_sz, param_sz, gtext>>
    /\ UNCHANGED <<gdraft, gmode, gblocks, gi, ginst, gcalls, gflush, gsize,
                   gtemps, gtick, gslots, rvars, mvars, lvars, ovars, cvars,
                   xvars>>

\* while(stack_temps > 0){ }: one more turn of the loop
Gen_routine_stack_temps ==
    /\ gpc = "stack_temps"
    /\ gtick' = 1 - gtick
    /\ UNCHANGED <<gdraft, gmode, reg_d, gblocks, gb, gi, gpc, ginst, gcalls,
                   gflush, gsize, gtemps, gslots, frame_sz, param_sz, gtext,
                   rvars,
                   mvars, lvars, ovars, cvars, xvars>>

\* Gen_inst on the next instruction of the block
Gen_inst(ins, used_next) ==
    /\ gpc = "inst"
    /\ gi < MaxGInst
    /\ \E o \in (CASE gdraft = "part_008" ->
                        { Gen_inst_008(reg_d, ins, used_next) }
                   [] gdraft = "part_009" ->
                        { Gen_inst_009(reg_d, gmode, ins) }
                   [] OTHER -> { Gen_inst_x86(reg_d, gmode, ins) }) :
         /\ reg_d' = o.d
         /\ gcalls' = o.calls
         /\ gpc' = o.pc
         /\ gslots' = IF gdraft = "part_008"
                       THEN push_temp(gslots, o, ins, used_next)
                       ELSE gslots
    /\ ginst' = ins
    /\ gi' = gi + 1
    /\ gflush' = [at |-> Clear, regs |-> {}]
    /\ UNCHANGED <<gdraft, gmode, gblocks, gb, gsize, gtemps, gtick,
                   frame_sz, param_sz, gtext, rvars, mvars, lvars, ovars,
                   cvars, xvars>>

\* blk->next() has no more instruction: the flush of Gen_blk, then the next
\* block (part_009 clears the descriptor when it enters Gen_blk)
Gen_blk_flush ==
    /\ gpc = "inst"
    /\ gi >= 1
    /\ gflush' = [at |-> reg_d, regs |-> Flush(gdraft, reg_d)]
    /\ IF gb < gblocks
       THEN /\ gb' = gb + 1
            /\ gi' = 0
            /\ gpc' = "inst"
            /\ reg_d' = IF gdraft = "part_009" THEN Clear ELSE reg_d
       ELSE /\ gpc' = "ret"
            /\ UNCHANGED <<gb, gi, reg_d>>
    /\ UNCHANGED <<gdraft, gmode, gblocks, ginst, gcalls, gsize, gtemps,
                   gtick, gslots, frame_sz, param_sz, gtext, rvars, mvars, lvars,
                   ovars, cvars, xvars>>

\* leave; ret param_sz
Gen_routine_ret ==
    /\ gpc = "ret"
    /\ gpc' = "done"
    /\ gtext' = IF gdraft = "gen-x86.cpp"
                THEN [gtext EXCEPT !.ret = str_num(param_sz)]
                ELSE gtext
    /\ UNCHANGED <<gdraft, gmode, reg_d, gblocks, gb, gi, ginst, gcalls,
                   gflush, gsize, gtemps, gtick, gslots, frame_sz, param_sz,
                   rvars,
                   mvars, lvars, ovars, cvars, xvars>>

(***************************************************************************)
(* Specifications                                                          *)
(***************************************************************************)
InitRoutine == RoutineInit /\ MkIdle /\ LiveIdle /\ ObjIdle /\ ConsIdle /\ XIdle
                 /\ GenIdle
NextRoutine == \E op \in FormerOps : add_inst(op)
SpecRoutine == InitRoutine /\ [][NextRoutine]_vars

InitMk == MkInit /\ RoutineIdle /\ LiveIdle /\ ObjIdle /\ ConsIdle /\ XIdle
            /\ GenIdle
NextMk == opt_liveblock_blk \/ opt_liveblock_end
SpecMk == InitMk /\ [][NextMk]_vars

InitLive == LiveInit /\ RoutineIdle /\ MkIdle /\ ObjIdle /\ ConsIdle /\ XIdle
              /\ GenIdle
NextLive ==
    \/ opt_dead
    \/ Liveness_none
    \/ Liveness_nores
    \/ Liveness_unary
    \/ Liveness_binary
    \/ Liveness_unknown
    \/ Liveness_again
SpecLive == InitLive /\ [][NextLive]_vars

InitObj == ObjInit /\ RoutineIdle /\ MkIdle /\ LiveIdle /\ ConsIdle /\ XIdle
             /\ GenIdle
NextObj ==
    \/ \E name \in Names : Obj_Index_add(name)
    \/ \E name \in Names : Obj_Index_remove(name)
    \/ \E name \in Names : Obj_Index_find(name)
    \/ Obj_Index_first
    \/ Obj_Index_next
SpecObj == InitObj /\ [][NextObj]_vars

InitCons == ConsInit /\ RoutineIdle /\ MkIdle /\ LiveIdle /\ ObjIdle /\ XIdle
              /\ GenIdle
NextCons ==
    \/ \E sc \in storage_class_t : Routine_set_sclass(sc)
    \/ \E sc \in storage_class_t : Object_set_sclass(sc)
    \/ \E n \in 0..MaxCount : Object_set_count(n)
    \/ \E n \in 0..MaxCount : Array_set_count(n)
SpecCons == InitCons /\ [][NextCons]_vars

InitX86 == XInit /\ RoutineIdle /\ MkIdle /\ LiveIdle /\ ObjIdle /\ ConsIdle
             /\ GenIdle
NextX86 ==
    \/ \E m \in x86_mode_t : x86(m)
    \/ x86_set_size
    \/ x86_visibility
    \/ x86_static_data
    \/ x86_code
    \/ \E m \in x86_mode_t : x86_part_009(m)
SpecX86 == InitX86 /\ [][NextX86]_vars

InitGen == GenInit /\ RoutineIdle /\ MkIdle /\ LiveIdle /\ ObjIdle /\ ConsIdle
             /\ XIdle
NextGen ==
    \/ Gen_routine_enter
    \/ Gen_routine_stack_temps
    \/ \E ins \in GInsts : \E used_next \in BOOLEAN : Gen_inst(ins, used_next)
    \/ Gen_blk_flush
    \/ Gen_routine_ret
SpecGen == InitGen /\ [][NextGen]_vars

InitFrame == FrameInit /\ RoutineIdle /\ MkIdle /\ LiveIdle /\ ObjIdle
               /\ ConsIdle /\ XIdle
NextFrame ==
    \/ Gen_routine_enter
    \/ Gen_routine_stack_temps
    \/ \E ins \in FrameInsts : \E used_next \in BOOLEAN :
           Gen_inst(ins, used_next)
    \/ Gen_blk_flush
    \/ Gen_routine_ret
SpecFrame == InitFrame /\ [][NextFrame]_vars

\* Gen_routine keeps running: no step of it is put off for ever
SpecFrameFair == SpecFrame /\ WF_vars(NextFrame)

(***************************************************************************)
(* Block former: claims                                                    *)
(***************************************************************************)

\* C1: after any sequence of Routine::add_inst calls every block of the
\* routine's block list holds at least one instruction, so that Gen_blk
\* never receives an empty block.
C1_BlocksNonEmpty ==
    \A i \in DOMAIN blocks : blocks[i] # <<>>

\* a lbl only at the head of the block, a terminator only at its tail
WellPlaced(b) ==
    \A i \in DOMAIN b :
        /\ b[i].op = "lbl" => i = 1
        /\ b[i].op \in Terminators => i = Len(b)

\* C2: in every block produced by the block former (Routine::add_inst, and
\* Mk_blk draining a queue) a lbl is the first instruction of its block and
\* a jmp, jz, loop, rtrn or call is the last instruction of its block.
C2_LeaderAndTerminatorPlaced ==
    /\ \A i \in DOMAIN blocks : WellPlaced(blocks[i])
    /\ \A i \in DOMAIN bq : WellPlaced(bq[i])

\* C3: block forming neither loses, duplicates nor reorders instructions:
\* the blocks of the routine, concatenated in block order, are exactly the
\* instructions added (from the first one added to a fresh routine on), and
\* the Mk_blk loop of opt_liveblock ends with the input queue empty.
C3_StreamPreserved ==
    /\ Flatten(blocks) = added
    /\ mpc = "done" => (q = <<>> /\ Flatten(bq) = input)

(***************************************************************************)
(* Liveness: claims                                                        *)
(***************************************************************************)
Ids(b) == { b[i].n : i \in DOMAIN b }
ReadsObj(J, o) == o # NULL /\ (J.left = o \/ J.right = o)
PassOver == lpc \in {"done", "done2"}

\* the instructions after position i of block b whose case sets arg1, arg2
Setters(b, i) ==
    { j \in (i + 1)..Len(b) :
        OpClass(ldraft, b[j].op) \in {"nores", "unary", "binary"} }

\* the nearest such instruction reads o: as left, or as right when binary
NearestReads(b, i, o) ==
    /\ Setters(b, i) # {}
    /\ LET j == CHOOSE x \in Setters(b, i) : \A y \in Setters(b, i) : x <= y
       IN  \/ b[j].left = o
           \/ OpClass(ldraft, b[j].op) = "binary" /\ b[j].right = o

C5_PrunesExactlyDeadTemps ==
    lpc = "done" =>
        \A b \in DOMAIN orig : \A i \in DOMAIN orig[b] :
            LET I == orig[b][i]
                gone == I.n \notin Ids(blks[b])
                read == \E j \in (i + 1)..Len(orig[b]) :
                            /\ orig[b][j].n \in Ids(blks[b])
                            /\ ReadsObj(orig[b][j], I.result)
            IN  /\ gone <=> (I.result \in Temps /\ ~read)
                /\ gone => I.result \notin operands

\* C6: a second run of Liveness on a block it has processed removes no
\* further instruction and keeps the same instructions in the same order.
C6_SecondRunKeepsBlock ==
    lpc = "done2" =>
        [i \in DOMAIN blks[bi] |-> blks[bi][i].n] =
        [i \in DOMAIN snap[bi] |-> snap[bi][i].n]

\* C7: an opcode outside the classified set is reported as an internal
\* error and aborts the pass: once it is met no other instruction is
\* processed, in this block or a later one.
C7_UnknownOpcodeAborts ==
    \A k \in DOMAIN log :
        /\ log[k] \in errs => k = Len(log)
        /\ \A b \in DOMAIN orig : \A i \in DOMAIN orig[b] :
             (orig[b][i].n = log[k] /\
              OpClass(ldraft, orig[b][i].op) = "unknown") => log[k] \in errs

(***************************************************************************)
(* Obj_Index: claims                                                       *)
(***************************************************************************)
Stored(ix, name) == \E i \in DOMAIN ix : ix[i].name = name

\* C8: Obj_Index::add answers an object without a name and an object whose
\* name is already stored with an error and leaves the container as it was;
\* every stored object has a non-empty name that no other stored object has.
C8_AddRejectsUnnamedAndDuplicate ==
    /\ (olast.op = "add" /\ (olast.name = "" \/ Stored(olast.before, olast.name)))
          => (olast.err /\ index = olast.before)
    /\ \A i \in DOMAIN index : index[i].name # ""
    /\ \A i, j \in DOMAIN index : index[i].name = index[j].name => i = j

\* C9: Obj_Index::find returns the stored object of that name, and for a
\* name that is not stored it returns NULL (NotFound) without a failure;
\* the container is unchanged.
C9_FindReturnsObjectOrNotFound ==
    olast.op = "find" =>
        /\ index = olast.before
        /\ ostatus = "ok"
        /\ IF Stored(index, olast.name)
           THEN \E i \in DOMAIN index :
                    index[i].name = olast.name /\ oret = index[i].id
           ELSE oret = NULL

\* C10: first() followed by next() calls on a non-empty container returns
\* the stored objects one after another, none twice; the next() after the
\* last object returns NULL without a failure; first() starts again with
\* the first object.
C10_IterationEndsAndRestarts ==
    /\ iter => /\ visited = [i \in 1..Len(visited) |-> index[i].id]
               /\ \A i, j \in DOMAIN visited : visited[i] = visited[j] => i = j
    /\ (iter /\ olast.op = "next" /\ olast.pos >= Len(index))
          => (ostatus = "ok" /\ oret = NULL /\ Len(visited) = Len(index))
    /\ (olast.op = "first" /\ index # <<>>)
          => (ostatus = "ok" /\ oret = index[1].id /\ visited = <<oret>>)

C12_SclassPrivateOrPublic ==
    clast.op = "Routine::set_sclass" =>
        IF clast.arg \in {"sc_private", "sc_public"}
        THEN ~clast.err /\ sclass = clast.arg
        ELSE clast.err /\ sclass = clast.before

\* C13: the first set_count(n) with n > 0 on a fresh object or array stores
\* n; every later set_count, and every set_count(0), fails with an error
\* and leaves the count as it was.
C13_CountSetOnce ==
    clast.op \in {"Object::set_count", "Array::set_count"} =>
        IF clast.sets = 0 /\ clast.arg > 0
        THEN ~clast.err /\ count = clast.arg
        ELSE clast.err /\ count = clast.before

(***************************************************************************)
(* x86(): claims                                                           *)
(***************************************************************************)
IsPrime(o) == o.type = "ot_prime"
IsDef(o) == o.type = "ot_struct_def"
Held == { objs[i] : i \in DOMAIN objs }
Sized == xdraft = "gen-x86.cpp" /\ xpc \in {"visibility", "data", "code", "done"}
PointerWidth == IF mode = "xm_long" THEN 8 ELSE 4

\* the width table of the design
WidthTable(w) ==
    CASE w = "w_byte"  -> 1
      [] w = "w_byte2" -> 2
      [] w = "w_byte4" -> 4
      [] w = "w_byte8" -> 8
      [] OTHER -> PointerWidth

C15_NoOutputBeforeByte8Error ==
    (/\ xdraft = "gen-x86.cpp"
     /\ xarg = "xm_protected"
     /\ \E o \in Held : IsPrime(o) /\ o.width = "w_byte8")
    => /\ ~Sized
       /\ xpc = "terminate" => out = <<>>

\* the layout of the design: members in declaration order, each aligned to
\* min(its size, pointer size); the size is the offset past the last member
RECURSIVE ClaimedSize(_)
RECURSIVE ClaimedEnd(_, _, _)
ClaimedMember(f) ==
    IF f \in StructNames THEN ClaimedSize(f) ELSE WidthTable(f)
ClaimedEnd(fs, k, off) ==
    IF k > Len(fs) THEN off
    ELSE LET z == ClaimedMember(fs[k])
             al == IF z < PointerWidth THEN z ELSE PointerWidth
             at == ((off + al - 1) \div al) * al
         IN  ClaimedEnd(fs, k + 1, at + z)
ClaimedSize(name) == ClaimedEnd(Members(Obj(name)), 1, 0)

\* C16: set_struct_size stores as the size of every struct the offset just
\* past the last member, members laid out in declaration order and each
\* aligned to min(its size, pointer size): member sizes plus all padding
\* (looked at where no size comes from bytes that were never set).
C16_StructSizeIsEndOffset ==
    (Sized /\ \A n \in DOMAIN size : size[n] # GARBAGE) =>
        \A o \in Held : IsDef(o) => size[o.name] = ClaimedSize(o.name)

RECURSIVE Count(_, _, _)
Count(ts, t, a) ==
    IF ts = <<>> THEN 0
    ELSE (IF Head(ts).t = t /\ Head(ts).a = a THEN 1 ELSE 0)
         + Count(Tail(ts), t, a)

\* C17: in one run of x86() exactly one struc ... endstruc directive is
\* written for each struct definition: never two, and one when the run is
\* through.
C17_OneDirectivePerStruct ==
    \A o \in Held : IsDef(o) =>
        /\ Count(out, "struc", o.name) <= 1
        /\ Sized => (Count(out, "struc", o.name) = 1 /\
                     Count(out, "endstruc", o.name) = 1)

\* x86() has turned the call down at its entry
RejectedAtEntry == xpc \in {"terminate", "rejected"} /\ out = <<>>

\* C18: in every call of x86() the mode handed to the call decides: real
\* and system-management mode are turned down before anything is written,
\* protected and long mode are accepted, whatever an earlier call was given.
C18_ModeOfTheCallDecides ==
    xcalls > 0 =>
        (xarg \in {"xm_real", "xm_smm"} <=> RejectedAtEntry)

\* C19: x86() on a container without objects returns normally with a
\* nothing-to-emit outcome and writes no section, declaration or
\* instruction.
C19_EmptyContainerIsBenign ==
    (/\ xdraft = "gen-x86.cpp"
     /\ xcalls > 0
     /\ objs = <<>>
     /\ xarg \in {"xm_protected", "xm_long"})
    => /\ xpc = "nothing"
       /\ \A i \in DOMAIN out : out[i].t \in {"header"}

\* the part of the file a put_str belongs to
Part(t) ==
    CASE t = "header" -> 1
      [] t \in {"struc", "resb", "endstrc"} -> 2
      [] t \in {"; Declaring Visibility", "global", "extern"} -> 3
      [] t \in {"section .data", "lbl", "d"} -> 4
      [] t \in {"section .code", "routine"} -> 5
      [] t = "trailer" -> 6
      [] OTHER -> 0

\* C20: a successful run of x86() writes header, struct directives,
\* visibility directives, section .data, section .code in this order, and
\* the last thing it writes is the trailer ; End of MPL generated file.
C20_PartsInOrderThenTrailer ==
    (xdraft = "gen-x86.cpp" /\ xpc = "done") =>
        /\ \A i, j \in DOMAIN out :
              (i < j /\ Part(out[i].t) # 0 /\ Part(out[j].t) # 0)
                  => Part(out[i].t) <= Part(out[j].t)
        /\ out[1].t = "header"
        /\ \E i \in DOMAIN out : out[i].t = "section .data"
        /\ \E i \in DOMAIN out : out[i].t = "section .code"
        /\ out[Len(out)].t = "trailer"

(***************************************************************************)
(* Liveness: what one case of the switch may touch                         *)
(***************************************************************************)
\* the step of Liveness over the instruction under the cursor
AtInst(ops) == lpc = "loop" /\ inst.op \in ops

\* arg1 and arg2 as the case left them: opt_dead clears both when it enters
\* Liveness for the next block
ArgsKept ==
    Reentered(blks, bi, cur) \/ (arg1' = arg1 /\ arg2' = arg2)

\* C26: for a nop or a proc instruction the liveness pass changes nothing:
\* no live flag, no used_next flag, and neither arg1 nor arg2.
C26_NopAndProcChangeNothing ==
    [][AtInst({"nop", "proc"}) =>
          (live' = live /\ blks' = blks /\ ArgsKept)]_vars

\* C27: the pass never dereferences an absent operand: over an instruction
\* without a result whose left operand is null it completes without a
\* failure and marks no operand live.
C27_NullLeftIsNotDereferenced ==
    [][(lpc = "loop" /\ OpClass(ldraft, inst.op) = "nores" /\
        inst.left = NULL) => (lpc' # "fault" /\ live' = live)]_vars

\* C28: when opt_dead is over, no surviving instruction has as its result,
\* left or right operand a temporary the pass has deleted from the container
\* of operands, whichever block produced it and whichever block reads it.
C28_NoSurvivorNamesDeletedTemp ==
    lpc = "done" =>
        \A b \in DOMAIN blks : \A i \in DOMAIN blks[b] :
            {blks[b][i].result, blks[b][i].left, blks[b][i].right}
                \subseteq operands \cup {NULL}

(***************************************************************************)
(* Emitter: claims                                                         *)
(***************************************************************************)
StackWidth == IF gmode = "xm_long" THEN 8 ELSE 4

\* the smallest multiple of w that is not below n
RoundUp(n, w) == ((n + w - 1) \div w) * w

Entered == gtext.enter # <<>>

\* C21: Gen_routine pads the size of the automatics and the size of the
\* parameters up to the stack width W (8 in long mode, 4 in protected
\* mode): each value handed on to enter and ret is the smallest multiple of
\* W not below the raw size, so a multiple is left as it is, 0 stays 0, and
\* the padded value is never below the raw size.
C21_PaddedToStackWidth ==
    Entered =>
        /\ frame_sz = RoundUp(gsize.auto, StackWidth)
        /\ param_sz = RoundUp(gsize.formal, StackWidth)
        /\ frame_sz >= gsize.auto
        /\ param_sz >= gsize.formal

\* a flush has just been made: Gen_blk is about to start the next block, or
\* Gen_routine is about to return
Flushed == (gpc = "inst" /\ gi = 0 /\ gb > 1) \/ gpc = "ret"

\* C22: at the end of every block each register the descriptor records as
\* holding a memory-backed object, R8-R15 included, has been written back,
\* and when the next block starts no register is recorded as holding a
\* value.
C22_BlockEndFlushesAndClears ==
    Flushed =>
        /\ \A r \in RegSet :
              (gflush.at[r] # NULL /\ is_mem(gflush.at[r])) =>
                  r \in gflush.regs
        /\ gpc = "inst" => \A r \in RegSet : reg_d[r] = NULL

\* the temporary a load found in its register has no other place
Needed(c, slots) ==
    /\ c.pre[c.reg] # NULL
    /\ sc_temp(c.pre[c.reg])
    /\ c.pre[c.reg] # c.arg
    /\ c.pre[c.reg] \notin slots

\* C23: after load(reg, src) the descriptor records src in reg and in no
\* other register, and a temporary that was in reg and is still needed is
\* recorded in some register: it is never overwritten silently.
C23_LoadKeepsTheOccupant ==
    [][gi' = gi + 1 =>
         \A k \in DOMAIN gcalls' :
            LET c == gcalls'[k] IN
            c.fn = "load" =>
                /\ c.post[c.reg] = c.arg
                /\ \A r \in RegSet \ {c.reg} : c.post[r] # c.arg
                /\ Needed(c, gslots) =>
                       \E r \in RegSet : c.post[r] = c.pre[c.reg]]_vars

\* C24: after a binary-result instruction other than div and mod (here add
\* and mul) the descriptor records the result in the accumulator and in no
\* other register.
C24_ResultInAccumulatorOnly ==
    (gdraft \in {"part_008", "gen-x86.cpp"} /\ gpc = "inst" /\ gi >= 1 /\
     ginst.op \in {"add", "mul"}) =>
        /\ reg_d["A"] = ginst.result
        /\ \A r \in RegSet \ {"A"} : reg_d[r] # ginst.result

\* the registers get_reg may hand out as empty
Candidates ==
    RegSet \ ({"SP"} \cup (IF gmode = "xm_long" THEN {} ELSE Extended))
NoneEmpty(d) == \A r \in Candidates : d[r] # NULL

\* C25: get_reg(arg) returns the register that holds arg; otherwise an
\* empty register, never R8-R15 in protected mode; when none is empty it
\* stores the accumulator, clears its entry and returns it.  The register
\* returned is always empty or holds arg.
C25_GetRegEmptyOrHoldingArg ==
    \A k \in DOMAIN gcalls :
        LET c == gcalls[k]
            held == c.arg # NULL /\ \E r \in RegSet : c.pre[r] = c.arg
        IN  c.fn = "get_reg" =>
            /\ c.reg \in RegSet
            /\ c.post[c.reg] \in {NULL, c.arg}
            /\ gmode = "xm_protected" => c.reg \notin Extended
            /\ held => (c.pre[c.reg] = c.arg /\ c.post = c.pre)
            /\ (~held /\ ~NoneEmpty(c.pre)) =>
                   (c.reg \in Candidates /\ c.pre[c.reg] = NULL /\
                    c.post = c.pre)
            /\ (~held /\ NoneEmpty(c.pre)) =>
                   (c.reg = "A" /\ c.post = [c.pre EXCEPT !["A"] = NULL] /\
                    c.wrote = is_mem(c.pre["A"]))

\* C25 witness: in protected mode get_reg found no empty register, wrote
\* the accumulator back to memory and returned it with its entry cleared.
C25_Witness ==
    /\ gmode = "xm_protected"
    /\ \E k \in DOMAIN gcalls :
          /\ gcalls[k].fn = "get_reg"
          /\ NoneEmpty(gcalls[k].pre)
          /\ gcalls[k].reg = "A"
          /\ gcalls[k].wrote
          /\ gcalls[k].post["A"] = NULL

\* C29: Gen_routine terminates for every routine of finitely many blocks
\* and instructions, whatever its count of concurrent temporaries, also
\* one above the registers set aside for them.
C29_GenRoutineTerminates == <>(gpc \in {"done", "terminate", "failed"})

\* the number a literal denotes for the assembler: 0x and hexadecimal
\* digits
RECURSIVE Hex(_)
Hex(digits) ==
    IF digits = <<>> THEN 0
    ELSE 16 * Hex(SubSeq(digits, 1, Len(digits) - 1)) + digits[Len(digits)]

\* C30: read as a 0x literal, what str_num(n) produces denotes n, for every
\* n and not only for n < 10 (here the operands of enter and of ret).
C30_LiteralDenotesTheNumber ==
    /\ Entered => Hex(gtext.enter.digits) = frame_sz
    /\ gtext.ret # <<>> => Hex(gtext.ret.digits) = param_sz

====
